---------------------------- MODULE Spec2Model ----------------------------
(***************************************************************************)
(* Model of src/src/components/FileConverter.tsx: the FileConverter React  *)
(* component (JSON / CSV / XML converter).                                  *)
(*                                                                         *)
(* Text.  A JavaScript string is modelled as a sequence of lexemes.  A     *)
(* lexeme is either one of the characters the code or the platform parsers *)
(* look at (comma, newline, space, double quote, brackets, braces, colon,  *)
(* angle brackets, slash, dot) or an atomic word made of other characters. *)
(* The empty string is <<>>.  Every string operation of the source (trim,  *)
(* split, replace, join, template literals) is computed on these           *)
(* sequences exactly as JavaScript computes it on the characters.          *)
(*                                                                         *)
(* Values.  A JavaScript value (the "any" of parsedData) is a record       *)
(* [t, s, a, o]: t its kind, s the text of a string / number / boolean,    *)
(* a the elements of an array, o the own enumerable entries of an object   *)
(* in property order.                                                      *)
(*                                                                         *)
(* Platform functions.  JSON.parse, JSON.stringify and DOMParser are       *)
(* modelled on the documents the model enumerates: JSON without escapes,   *)
(* signs, fractions or exponents; XML made of elements and character data  *)
(* (no attributes, comments, declarations or entities).  White space is    *)
(* the space and the newline.  Property names inherited from               *)
(* Object.prototype (constructor, __proto__, ...) do not occur as words.   *)
(*                                                                         *)
(* A handler runs to completion in one step: React applies the state       *)
(* setters of one call together.  The only asynchronous boundary is the    *)
(* FileReader, whose onload callback is a step of its own.                 *)
(***************************************************************************)
EXTENDS Integers, Sequences, FiniteSets

---------------------------------------------------------------------------
(* Bounds of the model *)

\* longest CSV text enumerated by InitCSV
MaxCsvLen == 5
\* most child elements of the root element enumerated by InitXML
MaxChildren == 3
\* most FileReader reads in flight at once
MaxReads == 2
\* most elements of a JSON array enumerated by InitSerialize
MaxItems == 2

---------------------------------------------------------------------------
(* Strings *)

NL == "\n"
SP == " "
QUOTE == "\""

\* String.prototype.trim removes leading and trailing white space
IsSpace(c) == c \in {SP, NL}

RECURSIVE TrimStart(_)
TrimStart(s) ==
    IF s # <<>> /\ IsSpace(Head(s)) THEN TrimStart(Tail(s)) ELSE s

RECURSIVE TrimEnd(_)
TrimEnd(s) ==
    IF s # <<>> /\ IsSpace(s[Len(s)]) THEN TrimEnd(SubSeq(s, 1, Len(s) - 1)) ELSE s

Trim(s) == TrimEnd(TrimStart(s))

\* index of the first occurrence of the lexeme c in s, 0 when there is none
RECURSIVE IndexOfFrom(_, _, _)
IndexOfFrom(s, c, i) ==
    IF i > Len(s) THEN 0
    ELSE IF s[i] = c THEN i
    ELSE IndexOfFrom(s, c, i + 1)

IndexOf(s, c) == IndexOfFrom(s, c, 1)

\* String.prototype.split(sep) for a one-character separator:
\* "".split(",") is [""], "a,".split(",") is ["a", ""]
RECURSIVE Split(_, _)
Split(s, sep) ==
    LET i == IndexOf(s, sep)
    IN  IF i = 0 THEN << s >>
        ELSE << SubSeq(s, 1, i - 1) >> \o Split(SubSeq(s, i + 1, Len(s)), sep)

\* s.replace(/c/g, "")
Remove(s, c) == SelectSeq(s, LAMBDA x : x # c)

\* Array.prototype.join(sep), sep a string
RECURSIVE Join(_, _)
Join(parts, sep) ==
    IF parts = <<>> THEN <<>>
    ELSE IF Len(parts) = 1 THEN parts[1]
    ELSE parts[1] \o sep \o Join(Tail(parts), sep)

\* all sequences over S of length at most n
SeqsUpTo(S, n) == UNION {[1..k -> S] : k \in 0..n}

---------------------------------------------------------------------------
(* JavaScript values *)

Undefined == [t |-> "undefined", s |-> <<>>, a |-> <<>>, o |-> <<>>]
Null      == [t |-> "null",      s |-> <<>>, a |-> <<>>, o |-> <<>>]
Str(x)    == [t |-> "string",    s |-> x,    a |-> <<>>, o |-> <<>>]
Num(x)    == [t |-> "number",    s |-> x,    a |-> <<>>, o |-> <<>>]
Bool(x)   == [t |-> "boolean",   s |-> x,    a |-> <<>>, o |-> <<>>]
Arr(x)    == [t |-> "array",     s |-> <<>>, a |-> x,    o |-> <<>>]
Obj(x)    == [t |-> "object",    s |-> <<>>, a |-> <<>>, o |-> x]

\* Array.isArray
IsArray(v) == v.t = "array"

Digits == {"0", "1", "2", "3", "4", "5", "6", "7", "8", "9"}

DigitValue(c) ==
    CASE c = "0" -> 0 [] c = "1" -> 1 [] c = "2" -> 2 [] c = "3" -> 3
      [] c = "4" -> 4 [] c = "5" -> 5 [] c = "6" -> 6 [] c = "7" -> 7
      [] c = "8" -> 8 [] c = "9" -> 9

\* a property key that is a canonical array index ("0", "7", "12", not "01")
IsIndexKey(k) ==
    /\ k # <<>>
    /\ \A i \in 1..Len(k) : k[i] \in Digits
    /\ (Len(k) > 1 => k[1] # "0")

RECURSIVE IndexKeyValue(_)
IndexKeyValue(k) ==
    IF k = <<>> THEN 0
    ELSE 10 * IndexKeyValue(SubSeq(k, 1, Len(k) - 1)) + DigitValue(k[Len(k)])

\* position of the own property k in the entries o, 0 when there is none
RECURSIVE KeyIndexFrom(_, _, _)
KeyIndexFrom(o, k, i) ==
    IF i > Len(o) THEN 0
    ELSE IF o[i].k = k THEN i
    ELSE KeyIndexFrom(o, k, i + 1)

KeyIndex(o, k) == KeyIndexFrom(o, k, 1)

\* obj[k]: undefined for a missing property
ObjGet(o, k) == IF KeyIndex(o, k) = 0 THEN Undefined ELSE o[KeyIndex(o, k)].v

\* number of entries a new key k is placed after: index keys come first, in
\* ascending numeric order, then the other keys in insertion order
RECURSIVE InsertAfter(_, _, _)
InsertAfter(o, k, i) ==
    IF i > Len(o) THEN Len(o)
    ELSE IF ~IsIndexKey(k) THEN Len(o)
    ELSE IF ~IsIndexKey(o[i].k) THEN i - 1
    ELSE IF IndexKeyValue(o[i].k) > IndexKeyValue(k) THEN i - 1
    ELSE InsertAfter(o, k, i + 1)

\* obj[k] = v on the entries o
ObjSet(o, k, v) ==
    LET i == KeyIndex(o, k)
        n == InsertAfter(o, k, 1)
    IN  IF i # 0 THEN [o EXCEPT ![i].v = v]
        ELSE SubSeq(o, 1, n) \o << [k |-> k, v |-> v] >> \o SubSeq(o, n + 1, Len(o))

\* Object.keys
Keys(o) == [i \in 1..Len(o) |-> o[i].k]

---------------------------------------------------------------------------
(* Results of the parse and serialize steps: a returned value or text, or   *)
(* a thrown Error with its message.  A message is a template and the        *)
(* numbers interpolated into it.                                            *)

Message(text, args) == [text |-> text, args |-> args]
NoMessage == Message("", <<>>)

Returned(v) == [ok |-> TRUE, val |-> v, text |-> <<>>, message |-> NoMessage]
ReturnedText(x) == [ok |-> TRUE, val |-> Undefined, text |-> x, message |-> NoMessage]
Thrown(m) == [ok |-> FALSE, val |-> Undefined, text |-> <<>>, message |-> m]

---------------------------------------------------------------------------
(* parseCSV *)

\* h.trim().replace(/"/g, "")
CleanCell(x) == Remove(Trim(x), QUOTE)

\* lines[i].split(",").map(v => v.trim().replace(/"/g, ""))
Cells(line) ==
    LET fields == Split(line, ",")
    IN  [i \in 1..Len(fields) |-> CleanCell(fields[i])]

\* headers.forEach((header, index) => { row[header] = values[index]; })
RECURSIVE BuildRow(_, _, _, _)
BuildRow(headers, values, index, row) ==
    IF index > Len(headers) THEN row
    ELSE BuildRow(headers, values, index + 1,
                  ObjSet(row, headers[index], Str(values[index])))

RowLengthMessage(row, actual, expected) ==
    Message("Row %1 has %2 columns, expected %3", << row, actual, expected >>)

\* the row number reported for the line at 1-based position n of lines:
\* the source's loop index i is n - 1 and it reports i + 1
RowNumber(n) == (n - 1) + 1

\* for (let i = 1; i < lines.length; i++): n is the 1-based position i + 1
RECURSIVE ParseCSVRows(_, _, _, _)
ParseCSVRows(lines, headers, n, result) ==
    IF n > Len(lines) THEN Returned(Arr(result))
    ELSE LET values == Cells(lines[n])
         IN  IF Len(values) # Len(headers)
             THEN Thrown(RowLengthMessage(RowNumber(n), Len(values), Len(headers)))
             ELSE ParseCSVRows(lines, headers, n + 1,
                      Append(result, Obj(BuildRow(headers, values, 1, <<>>))))

parseCSV(csvData) ==
    LET lines == Split(Trim(csvData), NL)
    IN  IF Len(lines) = 0 THEN Thrown(Message("CSV data is empty", <<>>))
        ELSE ParseCSVRows(lines, Cells(lines[1]), 2, <<>>)

---------------------------------------------------------------------------
(* parseXML and xmlToObject *)

\* the lexemes that are single punctuation or white-space characters; every
\* other lexeme is a word of letters, or a digit
Punctuation == {",", NL, SP, QUOTE, "[", "]", "{", "}", ":", "<", ">", "/", ".", "\\"}

\* a word that is an XML name
IsName(c) == c \notin Punctuation /\ c \notin Digits

\* a DOM Element: tagName, children (the child elements only) and textContent
\* (the text of all its descendants, in document order)
Element(tagName, children, textContent) ==
    [tagName |-> tagName, children |-> children, textContent |-> textContent]

\* what DOMParser gives for text that is not well formed: a document holding
\* a parsererror element
ParserError == Element("parsererror", <<>>, <<>>)

Parsed(node, rest) == [ok |-> TRUE, node |-> node, rest |-> rest]
NotParsed == [ok |-> FALSE, node |-> ParserError, rest |-> <<>>]

\* the XML parser of DOMParser.parseFromString(text, "text/xml"), for
\* documents made of start tags <n>, end tags </n>, empty-element tags <n/>
\* and character data; white space is allowed before the > of a tag
RECURSIVE DOMElement(_), DOMContent(_, _, _, _)
DOMElement(s) ==
    IF Len(s) < 3 \/ s[1] # "<" \/ ~IsName(s[2]) THEN NotParsed
    ELSE LET r == TrimStart(SubSeq(s, 3, Len(s)))
         IN  IF r = <<>> THEN NotParsed
             ELSE IF r[1] = ">" THEN DOMContent(Tail(r), s[2], <<>>, <<>>)
             ELSE IF Len(r) >= 2 /\ r[1] = "/" /\ r[2] = ">"
                  THEN Parsed(Element(s[2], <<>>, <<>>), SubSeq(r, 3, Len(r)))
             ELSE NotParsed

DOMContent(s, tagName, children, textContent) ==
    IF s = <<>> THEN NotParsed
    ELSE IF s[1] = "<" /\ Len(s) >= 2 /\ s[2] = "/"
    THEN LET r == TrimStart(SubSeq(s, 4, Len(s)))
         IN  IF Len(s) >= 4 /\ s[3] = tagName /\ r # <<>> /\ r[1] = ">"
             THEN Parsed(Element(tagName, children, textContent), Tail(r))
             ELSE NotParsed
    ELSE IF s[1] = "<"
    THEN LET child == DOMElement(s)
         IN  IF child.ok
             THEN DOMContent(child.rest, tagName, Append(children, child.node),
                             textContent \o child.node.textContent)
             ELSE NotParsed
    ELSE DOMContent(Tail(s), tagName, children, Append(textContent, s[1]))

\* parser.parseFromString(xmlData, "text/xml").documentElement
parseFromString(xmlData) ==
    LET root == DOMElement(TrimStart(xmlData))
    IN  IF root.ok /\ TrimStart(root.rest) = <<>> THEN root.node ELSE ParserError

\* element.getElementsByTagName(name).length > 0, the element itself included
RECURSIVE HasTagName(_, _)
HasTagName(element, name) ==
    \/ element.tagName = name
    \/ \E i \in 1..Len(element.children) : HasTagName(element.children[i], name)

\* the truthiness of a JavaScript value
Truthy(v) ==
    CASE v.t = "undefined" -> FALSE
      [] v.t = "null"      -> FALSE
      [] v.t = "string"    -> v.s # <<>>
      [] v.t = "number"    -> v.s # << "0" >>
      [] v.t = "boolean"   -> v.s = << "true" >>
      [] OTHER             -> TRUE

\* the body of the for loop of xmlToObject for one child whose converted
\* value is childData
AddChild(result, tagName, childData) ==
    LET old == ObjGet(result, << tagName >>)
    IN  IF Truthy(old)
        THEN IF IsArray(old)
             THEN ObjSet(result, << tagName >>, Arr(Append(old.a, childData)))
             ELSE ObjSet(result, << tagName >>, Arr(<< old, childData >>))
        ELSE ObjSet(result, << tagName >>, childData)

RECURSIVE xmlToObject(_), XmlChildren(_, _, _)
xmlToObject(element) ==
    IF Len(element.children) = 0 THEN Str(element.textContent)
    ELSE Obj(XmlChildren(element.children, 1, <<>>))

\* for (let i = 0; i < element.children.length; i++), i the 1-based position
XmlChildren(children, i, result) ==
    IF i > Len(children) THEN result
    ELSE XmlChildren(children, i + 1,
             AddChild(result, children[i].tagName, xmlToObject(children[i])))

parseXML(xmlData) ==
    LET documentElement == parseFromString(xmlData)
    IN  IF HasTagName(documentElement, "parsererror")
        THEN Thrown(Message("Failed to parse XML data", <<>>))
        ELSE Returned(xmlToObject(documentElement))

---------------------------------------------------------------------------
(* JSON.parse, for the JSON texts made of null, true, false, unsigned       *)
(* integers, strings without escapes, arrays and objects                    *)

JsonParsed(val, rest) == [ok |-> TRUE, val |-> val, rest |-> rest]
JsonError == [ok |-> FALSE, val |-> Undefined, rest |-> <<>>]

\* the longest prefix of s made of digits
RECURSIVE DigitRun(_)
DigitRun(s) ==
    IF s # <<>> /\ Head(s) \in Digits THEN << Head(s) >> \o DigitRun(Tail(s)) ELSE <<>>

\* a string token: s starts after the opening quote
JsonString(s) ==
    LET n == IndexOf(s, QUOTE)
        body == SubSeq(s, 1, n - 1)
    IN  IF n = 0 \/ IndexOf(body, NL) # 0 \/ IndexOf(body, "\\") # 0 THEN JsonError
        ELSE JsonParsed(Str(body), SubSeq(s, n + 1, Len(s)))

RECURSIVE JsonValue(_), JsonElements(_, _), JsonMembers(_, _)
JsonValue(text) ==
    LET s == TrimStart(text)
    IN  IF s = <<>> THEN JsonError
        ELSE IF s[1] = "null" THEN JsonParsed(Null, Tail(s))
        ELSE IF s[1] \in {"true", "false"} THEN JsonParsed(Bool(<< s[1] >>), Tail(s))
        ELSE IF s[1] \in Digits
        THEN LET d == DigitRun(s)
             IN  IF Len(d) > 1 /\ d[1] = "0" THEN JsonError
                 ELSE JsonParsed(Num(d), SubSeq(s, Len(d) + 1, Len(s)))
        ELSE IF s[1] = QUOTE THEN JsonString(Tail(s))
        ELSE IF s[1] = "["
        THEN LET r == TrimStart(Tail(s))
             IN  IF r # <<>> /\ r[1] = "]" THEN JsonParsed(Arr(<<>>), Tail(r))
                 ELSE JsonElements(r, <<>>)
        ELSE IF s[1] = "{"
        THEN LET r == TrimStart(Tail(s))
             IN  IF r # <<>> /\ r[1] = "}" THEN JsonParsed(Obj(<<>>), Tail(r))
                 ELSE JsonMembers(r, <<>>)
        ELSE JsonError

\* the elements of an array after its [ , up to and including its ]
JsonElements(text, a) ==
    LET e == JsonValue(text)
        r == TrimStart(e.rest)
    IN  IF ~e.ok \/ r = <<>> THEN JsonError
        ELSE IF r[1] = "]" THEN JsonParsed(Arr(Append(a, e.val)), Tail(r))
        ELSE IF r[1] = "," THEN JsonElements(Tail(r), Append(a, e.val))
        ELSE JsonError

\* the members of an object after its { , up to and including its }
JsonMembers(text, o) ==
    LET s == TrimStart(text)
        k == IF s # <<>> /\ s[1] = QUOTE THEN JsonString(Tail(s)) ELSE JsonError
        c == TrimStart(k.rest)
        v == IF k.ok /\ c # <<>> /\ c[1] = ":" THEN JsonValue(Tail(c)) ELSE JsonError
        r == TrimStart(v.rest)
    IN  IF ~v.ok \/ r = <<>> THEN JsonError
        ELSE IF r[1] = "}" THEN JsonParsed(Obj(ObjSet(o, k.val.s, v.val)), Tail(r))
        ELSE IF r[1] = "," THEN JsonMembers(Tail(r), ObjSet(o, k.val.s, v.val))
        ELSE JsonError

\* try { JSON.parse(inputData) } catch (e) { throw new Error("Invalid JSON ...") }
parseJSON(text) ==
    LET r == JsonValue(text)
    IN  IF r.ok /\ TrimStart(r.rest) = <<>> THEN Returned(r.val)
        ELSE Thrown(Message("Invalid JSON format. Please check your syntax.", <<>>))

---------------------------------------------------------------------------
(* JSON.stringify(value, null, 2) *)

RECURSIVE Spaces(_)
Spaces(n) == IF n = 0 THEN <<>> ELSE << SP >> \o Spaces(n - 1)

\* the escapes JSON.stringify writes inside a string
RECURSIVE JsonEscape(_)
JsonEscape(s) ==
    IF s = <<>> THEN <<>>
    ELSE (CASE Head(s) = QUOTE -> << "\\", QUOTE >>
            [] Head(s) = "\\"  -> << "\\", "\\" >>
            [] Head(s) = NL    -> << "\\", "n" >>
            [] OTHER           -> << Head(s) >>) \o JsonEscape(Tail(s))

JsonQuote(s) == << QUOTE >> \o JsonEscape(s) \o << QUOTE >>

\* the number of spaces JSON.stringify indents each level by (line 60)
Indent == 2

RECURSIVE Stringify(_, _)
Stringify(v, depth) ==
    LET inner == << NL >> \o Spaces(Indent * (depth + 1))
        outer == << NL >> \o Spaces(Indent * depth)
    IN  CASE v.t = "string" -> JsonQuote(v.s)
          [] v.t \in {"number", "boolean"} -> v.s
          [] v.t = "array" ->
                IF v.a = <<>> THEN << "[", "]" >>
                ELSE << "[" >> \o inner
                     \o Join([i \in 1..Len(v.a) |-> Stringify(v.a[i], depth + 1)],
                             << "," >> \o inner)
                     \o outer \o << "]" >>
          [] v.t = "object" ->
                IF v.o = <<>> THEN << "{", "}" >>
                ELSE << "{" >> \o inner
                     \o Join([i \in 1..Len(v.o) |->
                                JsonQuote(v.o[i].k) \o << ":", SP >>
                                \o Stringify(v.o[i].v, depth + 1)],
                             << "," >> \o inner)
                     \o outer \o << "}" >>
          [] OTHER -> << "null" >>

\* JSON.stringify(parsedData, null, 2); parsedData is never undefined here
stringifyJSON(data) == ReturnedText(Stringify(data, 0))

---------------------------------------------------------------------------
(* convertToCSV *)

\* the characters of a string: the literal words are the only lexemes of
\* more than one character
RECURSIVE Chars(_)
Chars(s) ==
    IF s = <<>> THEN <<>>
    ELSE (CASE Head(s) = "null"  -> << "n", "u", "l", "l" >>
            [] Head(s) = "true"  -> << "t", "r", "u", "e" >>
            [] Head(s) = "false" -> << "f", "a", "l", "s", "e" >>
            [] OTHER             -> << Head(s) >>) \o Chars(Tail(s))

\* the decimal digits of a natural number
RECURSIVE NatToString(_)
NatToString(n) ==
    IF n < 10 THEN << CHOOSE c \in Digits : DigitValue(c) = n >>
    ELSE NatToString(n \div 10) \o NatToString(n % 10)

IndexKeys(n) == [i \in 1..n |-> NatToString(i - 1)]

TypeErrorMessage == Message("Cannot convert undefined or null to object", <<>>)
ReadErrorMessage == Message("Cannot read properties of null", <<>>)

\* Object.keys(x): a thrown TypeError for null and undefined
ObjectKeys(x) ==
    CASE x.t \in {"undefined", "null"} -> Thrown(TypeErrorMessage)
      [] x.t = "object" -> Returned(Arr(Keys(x.o)))
      [] x.t = "array"  -> Returned(Arr(IndexKeys(Len(x.a))))
      [] x.t = "string" -> Returned(Arr(IndexKeys(Len(Chars(x.s)))))
      [] OTHER          -> Returned(Arr(<<>>))

\* row[header] for a row that is not null or undefined
GetProperty(row, header) ==
    CASE row.t = "object" -> ObjGet(row.o, header)
      [] row.t = "array" ->
            IF IsIndexKey(header) /\ IndexKeyValue(header) < Len(row.a)
            THEN row.a[IndexKeyValue(header) + 1] ELSE Undefined
      [] row.t = "string" ->
            IF IsIndexKey(header) /\ IndexKeyValue(header) < Len(Chars(row.s))
            THEN Str(<< Chars(row.s)[IndexKeyValue(header) + 1] >>) ELSE Undefined
      [] OTHER -> Undefined

\* String(v), as a template literal converts v
RECURSIVE String(_)
String(v) ==
    CASE v.t = "undefined" -> << "undefined" >>
      [] v.t = "null"      -> << "null" >>
      [] v.t = "array"     ->
            Join([i \in 1..Len(v.a) |->
                    IF v.a[i].t \in {"undefined", "null"} THEN <<>>
                    ELSE String(v.a[i])], << "," >>)
      [] v.t = "object"    -> << "[object Object]" >>
      [] OTHER             -> v.s

\* `"${row[header] || ""}"`
CsvCell(row, header) ==
    LET value == GetProperty(row, header)
    IN  << QUOTE >> \o (IF Truthy(value) THEN String(value) ELSE <<>>) \o << QUOTE >>

\* headers.map(header => ...).join(",")
CsvRow(row, headers) ==
    Join([j \in 1..Len(headers) |-> CsvCell(row, headers[j])], << "," >>)

\* reading row[header] throws when row is null (undefined cannot occur in
\* parsed data) and there is a header to read
RowThrows(row, headers) == row.t \in {"undefined", "null"} /\ headers # <<>>

\* lines 153-161: the header row and the data rows of a non-empty array
CsvContent(data) ==
    LET keys == ObjectKeys(data.a[1])
        headers == keys.val.a
    IN  IF ~keys.ok THEN Thrown(keys.message)
        ELSE IF \E i \in 1..Len(data.a) : RowThrows(data.a[i], headers)
        THEN Thrown(ReadErrorMessage)
        ELSE ReturnedText(
               Join(<< Join(headers, << "," >>) >>
                    \o [i \in 1..Len(data.a) |-> CsvRow(data.a[i], headers)],
                    << NL >>))

\* convertToCSV without the Array.isArray guard: a value that is not an array
\* is written as a single row
convertToCSVNoGuard(data) ==
    IF ~IsArray(data) THEN CsvContent(Arr(<< data >>))
    ELSE IF Len(data.a) = 0 THEN ReturnedText(<<>>)
    ELSE CsvContent(data)

convertToCSV(data) ==
    IF ~IsArray(data) THEN Thrown(Message("CSV output requires array data", <<>>))
    ELSE IF Len(data.a) = 0 THEN ReturnedText(<<>>)
    ELSE CsvContent(data)

---------------------------------------------------------------------------
(* convertToXML *)

XmlDeclaration == "<?xml version=\"1.0\" encoding=\"UTF-8\"?>"

RECURSIVE objectToXml(_)
objectToXml(obj) ==
    CASE obj.t = "array" ->
            Join([i \in 1..Len(obj.a) |->
                    << "<", "item", ">" >> \o objectToXml(obj.a[i])
                    \o << "<", "/", "item", ">" >>], << NL >>)
      [] obj.t = "object" ->
            Join([i \in 1..Len(obj.o) |->
                    << "<" >> \o obj.o[i].k \o << ">" >> \o objectToXml(obj.o[i].v)
                    \o << "<", "/" >> \o obj.o[i].k \o << ">" >>], << NL >>)
      [] OTHER -> String(obj)

\* convertToXML without the declaration and the root element around the
\* rendered data
convertToXMLNoRoot(data) == ReturnedText(objectToXml(data))

convertToXML(data) ==
    ReturnedText(<< XmlDeclaration, NL, "<", "root", ">", NL >>
                 \o objectToXml(data)
                 \o << NL, "<", "/", "root", ">" >>)

---------------------------------------------------------------------------
(* The component's state *)

VARIABLES
    inputData,      \* useState(""): the input text
    outputData,     \* useState(""): the output text
    inputFormat,    \* useState("json")
    outputFormat,   \* useState("csv")
    error,          \* useState(null): the ConversionError on display
    isConverting,   \* useState(false)
    toast,          \* the last notification passed to toast()
    download,       \* the download attribute of the last anchor clicked
    reads,          \* the FileReader reads in flight: file |-> how many
    parsedData,     \* the value of parsedData in the last call that parsed
    outcome,        \* how the last call of validateAndConvert ended
    serializedAs    \* the output format that produced the current outputData

vars == << inputData, outputData, inputFormat, outputFormat, error, isConverting,
           toast, download, reads, parsedData, outcome, serializedAs >>

\* type FileFormat = "json" | "csv" | "xml"
FileFormat == {"json", "csv", "xml"}

\* String.prototype.toUpperCase / toLowerCase on the words used here
toUpperCase(w) ==
    CASE w = "json" -> "JSON" [] w = "csv" -> "CSV" [] w = "xml" -> "XML"
      [] w = "data" -> "DATA" [] w = "bin" -> "BIN" [] OTHER -> w

toLowerCase(w) ==
    CASE w = "JSON" -> "json" [] w = "CSV" -> "csv" [] w = "XML" -> "xml"
      [] w = "DATA" -> "data" [] w = "BIN" -> "bin" [] OTHER -> w

\* error: null, or { message, type }
NoError == [message |-> NoMessage, type |-> "null"]
ConversionError(message, type) == [message |-> message, type |-> type]

Toast(title, description) == [title |-> title, description |-> description]
NoToast == Toast("", <<>>)

NoDownload == <<>>

Blank(text) == Trim(text) = <<>>

---------------------------------------------------------------------------
(* validateAndConvert *)

\* lines 45-55: parse the input with the selected input format
Parse(format, text) ==
    CASE format = "json" -> parseJSON(text)
      [] format = "csv"  -> parseCSV(text)
      [] format = "xml"  -> parseXML(text)

\* lines 59-67: serialize with the selected output format
Serialize(format, data) ==
    CASE format = "json" -> stringifyJSON(data)
      [] format = "csv"  -> convertToCSV(data)
      [] format = "xml"  -> convertToXML(data)
      [] OTHER           -> Thrown(Message("Unsupported output format", <<>>))

\* the try block: the text, or the Error that reaches the catch clause
Convert(inFormat, outFormat, text) ==
    LET parsed == Parse(inFormat, text)
    IN  IF parsed.ok THEN Serialize(outFormat, parsed.val) ELSE parsed

\* blank input handled as the catch clause handles a failure
RefuseAsFailure ==
    /\ error' = ConversionError(Message("Please enter some data to convert", <<>>),
                                "error")
    /\ outputData' = <<>>
    /\ outcome' = "refused"
    /\ UNCHANGED << inputData, inputFormat, outputFormat, isConverting,
                    toast, download, reads, parsedData, serializedAs >>

\* lines 33-36: blank input
Refuse ==
    /\ error' = ConversionError(Message("Please enter some data to convert", <<>>),
                                "warning")
    /\ outcome' = "refused"
    /\ UNCHANGED << inputData, outputData, inputFormat, outputFormat, isConverting,
                    toast, download, reads, parsedData, serializedAs >>

\* lines 39, 69-73: the try block ran to its end
Succeed(convertedData) ==
    /\ error' = NoError
    /\ outputData' = convertedData
    /\ toast' = Toast("Conversion successful!",
                      << "Successfully converted ", toUpperCase(inputFormat),
                         " to ", toUpperCase(outputFormat) >>)
    /\ outcome' = "success"
    /\ serializedAs' = outputFormat

\* the catch clause without setOutputData("")
FailKeepsOutput(errorMessage) ==
    /\ error' = ConversionError(errorMessage, "error")
    /\ outputData' = outputData
    /\ toast' = toast
    /\ outcome' = "failed"
    /\ serializedAs' = serializedAs

\* lines 74-77: the catch clause
Fail(errorMessage) ==
    /\ error' = ConversionError(errorMessage, "error")
    /\ outputData' = <<>>
    /\ toast' = toast
    /\ outcome' = "failed"
    /\ serializedAs' = "none"

\* no finally clause: the setIsConverting(true) of line 38 stands
NoFinally == isConverting' = TRUE

\* lines 78-80: the finally clause
Finally == isConverting' = FALSE

ValidateAndConvert ==
    IF Blank(inputData) THEN Refuse
    ELSE LET parsed == Parse(inputFormat, inputData)
             converted == Convert(inputFormat, outputFormat, inputData)
         IN  \* lines 38-39: setIsConverting(true) is overwritten by the finally
             \* clause within the same call; setError(null) is part of Succeed
             /\ UNCHANGED << inputData, inputFormat, outputFormat, download, reads >>
             /\ parsedData' = parsed.val
             /\ IF converted.ok THEN Succeed(converted.text)
                                ELSE Fail(converted.message)
             /\ Finally

---------------------------------------------------------------------------
(* handleDownload *)

\* `converted.${outputFormat}`
DownloadName(format) == << "converted", ".", format >>

\* handleDownload naming the file after the input format
HandleDownloadInputFormat ==
    IF outputData = <<>>
    THEN /\ toast' = Toast("No data to download", << "Please convert some data first" >>)
         /\ UNCHANGED << inputData, outputData, inputFormat, outputFormat, error,
                         isConverting, download, reads, parsedData, outcome,
                         serializedAs >>
    ELSE /\ download' = << "converted", ".", inputFormat >>
         /\ toast' = Toast("Download started",
                           << "File saved as converted.", inputFormat >>)
         /\ UNCHANGED << inputData, outputData, inputFormat, outputFormat, error,
                         isConverting, reads, parsedData, outcome, serializedAs >>

HandleDownload ==
    IF outputData = <<>>
    THEN /\ toast' = Toast("No data to download", << "Please convert some data first" >>)
         /\ UNCHANGED << inputData, outputData, inputFormat, outputFormat, error,
                         isConverting, download, reads, parsedData, outcome,
                         serializedAs >>
    ELSE /\ download' = DownloadName(outputFormat)
         /\ toast' = Toast("Download started",
                           << "File saved as converted.", outputFormat >>)
         /\ UNCHANGED << inputData, outputData, inputFormat, outputFormat, error,
                         isConverting, reads, parsedData, outcome, serializedAs >>

---------------------------------------------------------------------------
(* handleFileUpload and the FileReader *)

\* a File the user can pick: its name and the text readAsText yields
File(name, content) == [name |-> name, content |-> content]
NoFile == File(<<>>, <<>>)

\* file.name.split('.').pop()?.toLowerCase()
Extension(name) ==
    LET parts == Split(name, ".")
        last == parts[Len(parts)]
    IN  [i \in 1..Len(last) |-> toLowerCase(last[i])]

\* number of reads in flight
RECURSIVE Total(_, _)
Total(bag, S) ==
    IF S = {} THEN 0
    ELSE LET f == CHOOSE x \in S : TRUE IN bag[f] + Total(bag, S \ {f})

InFlight == Total(reads, DOMAIN reads)

\* lines 209-212, 223: reader.readAsText(file) starts a read; the callback of
\* line 213 runs later
HandleFileUpload(file) ==
    IF file = NoFile
    THEN UNCHANGED vars
    ELSE /\ InFlight < MaxReads
         /\ reads' = [reads EXCEPT ![file] = @ + 1]
         /\ UNCHANGED << inputData, outputData, inputFormat, outputFormat, error,
                         isConverting, toast, download, parsedData, outcome,
                         serializedAs >>

\* lines 219-221: the input format after the read of a file of that name
DetectFormat(name, format) ==
    LET extension == Extension(name)
    IN  IF extension = << "json" >> \/ extension = << "csv" >> \/ extension = << "xml" >>
        THEN extension[1] ELSE format

\* lines 213-222: reader.onload
ReaderOnload(file) ==
    /\ reads[file] > 0
    /\ reads' = [reads EXCEPT ![file] = @ - 1]
    /\ inputData' = file.content
    /\ inputFormat' = DetectFormat(file.name, inputFormat)
    /\ UNCHANGED << outputData, outputFormat, error, isConverting, toast, download,
                    parsedData, outcome, serializedAs >>

\* a read that fails: the reader has no onerror handler, nothing is told
ReaderFails(file) ==
    /\ reads[file] > 0
    /\ reads' = [reads EXCEPT ![file] = @ - 1]
    /\ UNCHANGED << inputData, outputData, inputFormat, outputFormat, error,
                    isConverting, toast, download, parsedData, outcome,
                    serializedAs >>

---------------------------------------------------------------------------
(* The controls *)

\* line 282: the input Textarea's onChange
SetInputData(text) ==
    /\ inputData' = text
    /\ UNCHANGED << outputData, inputFormat, outputFormat, error, isConverting,
                    toast, download, reads, parsedData, outcome, serializedAs >>

\* line 246: the input format Select
SetInputFormat(format) ==
    /\ inputFormat' = format
    /\ UNCHANGED << inputData, outputData, outputFormat, error, isConverting,
                    toast, download, reads, parsedData, outcome, serializedAs >>

\* line 298: the output format Select
SetOutputFormat(format) ==
    /\ outputFormat' = format
    /\ UNCHANGED << inputData, outputData, inputFormat, error, isConverting,
                    toast, download, reads, parsedData, outcome, serializedAs >>

---------------------------------------------------------------------------
(* The texts and files of the user *)

EmptyText     == <<>>
BlankText     == << SP, NL >>
JsonArrayText == << "[", "1", "]" >>
XmlLeafText   == << "<", "r", ">", "x", "<", "/", "r", ">" >>
CsvShortText  == << "a", ",", "b", NL, "1" >>

\* what the user types or pastes into the input Textarea
Texts == {EmptyText, BlankText, JsonArrayText, XmlLeafText, CsvShortText}

\* the files the user uploads
Files == { File(<< "data", ".", "xml" >>, XmlLeafText),
           File(<< "data", ".", "bin" >>, CsvShortText),
           File(<< "json" >>, JsonArrayText) }

---------------------------------------------------------------------------
(* The component *)

\* lines 18-23: the state after the first render
Fresh ==
    /\ outputData = <<>>
    /\ error = NoError
    /\ isConverting = FALSE
    /\ toast = NoToast
    /\ download = NoDownload
    /\ reads = [f \in Files |-> 0]
    /\ parsedData = Undefined
    /\ outcome = "none"
    /\ serializedAs = "none"

Init ==
    /\ inputData = <<>>
    /\ inputFormat = "json"
    /\ outputFormat = "csv"
    /\ Fresh

Next ==
    \/ \E text \in Texts : SetInputData(text)
    \/ \E format \in FileFormat : SetInputFormat(format)
    \/ \E format \in FileFormat : SetOutputFormat(format)
    \/ ValidateAndConvert
    \/ HandleDownload
    \/ \E file \in Files \cup {NoFile} : HandleFileUpload(file)
    \/ \E file \in Files : ReaderOnload(file)
    \/ \E file \in Files : ReaderFails(file)

Spec == Init /\ [][Next]_vars

---------------------------------------------------------------------------
(* parseCSV on every short text: one conversion of a CSV input *)

CsvAlphabet == {"a", "b", ",", NL, SP, QUOTE}

InitCSV ==
    /\ inputData \in SeqsUpTo(CsvAlphabet, MaxCsvLen)
    /\ inputFormat = "csv"
    /\ outputFormat = "json"
    /\ Fresh

NextCSV == ValidateAndConvert

SpecCSV == InitCSV /\ [][NextCSV]_vars

---------------------------------------------------------------------------
(* xmlToObject on every small document: one conversion of an XML input *)

Leaf(tagName, text) == Element(tagName, <<>>, text)

XmlLeaves == {Leaf(tagName, text) : tagName \in {"a", "b"}, text \in {<<>>, << "x" >>}}

\* the child elements of the root: leaves, and containers of one or two leaves
XmlChildNodes ==
    XmlLeaves
    \cup {Element("a", << l >>, l.textContent) : l \in {Leaf("b", <<>>), Leaf("b", << "x" >>)}}
    \cup {Element("b", << Leaf("a", <<>>), Leaf("a", << "x" >>) >>, << "x" >>)}

XmlDocuments ==
    {Leaf("r", <<>>), Leaf("r", << "x" >>)}
    \cup {Element("r", c, <<>>) : c \in SeqsUpTo(XmlChildNodes, MaxChildren) \ {<<>>}}

\* the text of a document
RECURSIVE XmlText(_)
XmlText(element) ==
    << "<", element.tagName, ">" >>
    \o (IF element.children = <<>> THEN element.textContent
        ELSE Join([i \in 1..Len(element.children) |-> XmlText(element.children[i])], <<>>))
    \o << "<", "/", element.tagName, ">" >>

InitXML ==
    /\ inputData \in {XmlText(e) : e \in XmlDocuments}
    /\ inputFormat = "xml"
    /\ outputFormat = "json"
    /\ Fresh

NextXML == ValidateAndConvert

SpecXML == InitXML /\ [][NextXML]_vars

---------------------------------------------------------------------------
(* The serializers on every small value: one conversion of a JSON, CSV or  *)
(* XML input to each output format                                          *)

JsonScalars ==
    {Null, Bool(<< "true" >>), Bool(<< "false" >>), Num(<< "0" >>), Num(<< "1" >>),
     Str(<<>>), Str(<< "a" >>)}

JsonNested ==
    JsonScalars
    \cup {Arr(a) : a \in SeqsUpTo(JsonScalars, 1)}
    \cup {Obj(<<>>)}
    \cup {Obj(<< [k |-> << "a" >>, v |-> x] >>) : x \in JsonScalars}

JsonValues ==
    JsonNested \cup {Arr(a) : a \in SeqsUpTo(JsonNested, MaxItems)}

SerializeInputs ==
    {<< "json", Stringify(v, 0) >> : v \in JsonValues}
    \cup {<< "json", << "[", "1", "," >> >>}
    \cup {<< "xml", XmlText(e) >> : e \in XmlDocuments}
    \cup {<< "csv", t >> : t \in {<< "a", ",", "b" >>, << "a", ",", "b", NL, "1", ",", "1" >>,
                                  << "a", ",", "b", NL, "1" >>}}

InitSerialize ==
    /\ \E i \in SerializeInputs : inputFormat = i[1] /\ inputData = i[2]
    /\ outputFormat \in FileFormat
    /\ Fresh

NextSerialize == ValidateAndConvert

SpecSerialize == InitSerialize /\ [][NextSerialize]_vars

---------------------------------------------------------------------------
(* Properties *)

Converted == outcome \in {"success", "failed"}

\* C1: validateAndConvert on empty or white-space-only input leaves outputData
\* as it was, shows a message of severity warning, runs no parse or serialize
\* step and leaves isConverting false.
C1_BlankInputRefused ==
    [][(Blank(inputData) /\ ValidateAndConvert)
         => /\ outputData' = outputData
            /\ error'.type = "warning"
            /\ parsedData' = parsedData
            /\ serializedAs' = serializedAs
            /\ toast' = toast
            /\ isConverting = FALSE /\ isConverting' = FALSE]_vars

\* a refusal of white-space-only input that kept the output of an earlier
\* conversion
C1_Witness ==
    /\ outcome = "refused"
    /\ inputData = BlankText
    /\ error.type = "warning"
    /\ outputData # <<>>

\* C2: whenever the message on display has severity error, outputData is the
\* empty string.
C2_ErrorMeansNoOutput == error.type = "error" => outputData = <<>>

\* a failed conversion after a successful one (whose confirmation is still
\* the last toast)
C2_Witness ==
    /\ outcome = "failed"
    /\ error.type = "error"
    /\ toast.title = "Conversion successful!"

\* C3: every conversion of non-blank input returns with isConverting false and
\* either Success (error cleared to null, outputData the serialized text) or
\* Failed (an error of severity error stored).
C3_SuccessOrFailed ==
    [][(~Blank(inputData) /\ ValidateAndConvert)
         => LET converted == Convert(inputFormat, outputFormat, inputData)
            IN  /\ isConverting' = FALSE
                /\ \/ /\ converted.ok
                      /\ error' = NoError
                      /\ outputData' = converted.text
                   \/ /\ ~converted.ok
                      /\ error'.type = "error"]_vars

\* a conversion to XML that succeeded and cleared the message
C3_Witness ==
    /\ outcome = "success"
    /\ serializedAs = "xml"
    /\ error = NoError
    /\ outputData # <<>>
    /\ isConverting = FALSE

\* number of fields a line splits into on commas
FieldCount(line) == Len(SelectSeq(line, LAMBDA c : c = ",")) + 1

\* position of the first line after the header whose field count differs from
\* the header's, 0 when there is none
FirstBadRow(lines) ==
    LET bad == {n \in 2..Len(lines) : FieldCount(lines[n]) # FieldCount(lines[1])}
    IN  IF bad = {} THEN 0 ELSE CHOOSE n \in bad : \A m \in bad : n <= m

\* C4: parseCSV fails exactly when a line after the header has a field count
\* different from the header's, naming the 1-based row of the first such line,
\* its field count and the header's; otherwise it returns one object per data
\* line, in order, mapping each header to that line's cell.
C4_ParseCSV ==
    Converted =>
        LET lines == Split(Trim(inputData), NL)
            n == FirstBadRow(lines)
        IN  IF n # 0
            THEN /\ outcome = "failed"
                 /\ error.message = RowLengthMessage(n, FieldCount(lines[n]),
                                                     FieldCount(lines[1]))
            ELSE /\ outcome = "success"
                 /\ parsedData.t = "array"
                 /\ Len(parsedData.a) = Len(lines) - 1
                 /\ \A i \in 1..Len(parsedData.a) :
                      /\ parsedData.a[i].t = "object"
                      /\ \A j \in 1..FieldCount(lines[1]) :
                           ObjGet(parsedData.a[i].o, Cells(lines[1])[j])
                             = Str(Cells(lines[i + 1])[j])

\* C5: convertToCSV fails for every value that is not an array and returns
\* the empty string for the empty array; a conversion to CSV ends Failed with
\* the output cleared whenever the parsed value is not an array, which is so
\* for every XML input.
C5_CsvNeedsArray ==
    (Converted /\ outputFormat = "csv") =>
        /\ parsedData.t # "array"
             => /\ outcome = "failed"
                /\ error.type = "error"
                /\ outputData = <<>>
        /\ parsedData.t \notin {"array", "undefined"}
             => error.message = Message("CSV output requires array data", <<>>)
        /\ parsedData = Arr(<<>>)
             => /\ outcome = "success"
                /\ outputData = <<>>
        /\ inputFormat = "xml"
             => /\ parsedData.t \in {"string", "object"}
                /\ outcome = "failed"

\* an XML document that parsed to an object and failed to convert to CSV
C5_Witness ==
    /\ outcome = "failed"
    /\ outputFormat = "csv"
    /\ inputFormat = "xml"
    /\ parsedData.t = "object"
    /\ outputData = <<>>

\* the value the claim gives for an element
RECURSIVE XmlClaim(_, _)
XmlClaim(element, value) ==
    IF element.children = <<>> THEN value = Str(element.textContent)
    ELSE LET tags == {element.children[i].tagName : i \in 1..Len(element.children)}
         IN  /\ value.t = "object"
             /\ {value.o[i].k : i \in 1..Len(value.o)} = {<< tag >> : tag \in tags}
             /\ \A tag \in tags :
                  LET same == SelectSeq(element.children, LAMBDA c : c.tagName = tag)
                      got == ObjGet(value.o, << tag >>)
                  IN  IF Len(same) >= 2
                      THEN /\ got.t = "array"
                           /\ Len(got.a) = Len(same)
                           /\ \A i \in 1..Len(same) : XmlClaim(same[i], got.a[i])
                      ELSE XmlClaim(same[1], got)

\* C6: xmlToObject maps a leaf to its text content and a container to an
\* object in which a tag occurring n >= 2 times maps to the array of all n
\* converted children in document order and a tag occurring once maps to its
\* converted child, for every converted child value, empty text included.
C6_XmlToObject ==
    Converted => XmlClaim(parseFromString(inputData), parsedData)

\* the input format the claim gives after the read of a file of that name
ClaimedFormat(name, prior) ==
    LET parts == Split(name, ".")
        last == parts[Len(parts)]
        extension == [i \in 1..Len(last) |-> toLowerCase(last[i])]
    IN  IF Len(parts) >= 2 /\ extension \in {<< "json" >>, << "csv" >>, << "xml" >>}
        THEN extension[1] ELSE prior

\* C7: when a read completes, inputData becomes the file's text, inputFormat
\* becomes the file's extension if that is json, csv or xml and otherwise
\* keeps its value, and outputFormat does not change.
C7_UploadSetsInput ==
    [][\A file \in Files :
         ReaderOnload(file)
           => /\ inputData' = file.content
              /\ inputFormat' = ClaimedFormat(file.name, inputFormat)
              /\ outputFormat' = outputFormat]_vars

\* C8: at most one read is in flight, and nothing else happens between the
\* start of a read and its completion.
C8_NoOverlap ==
    [][InFlight > 0 => InFlight' = 0]_vars

\* C9: the extension of a download's file name is the format in which the
\* current outputData was serialized.
C9_ExtensionIsSerializedFormat ==
    [][(outputData # <<>> /\ HandleDownload)
         => download' = << "converted", ".", serializedAs >>]_vars

\* C9 as amended: the extension of a download's file name is the output
\* format selected at the time of the download.
C9_ExtensionIsSelectedFormat ==
    [][(outputData # <<>> /\ HandleDownload)
         => download' = << "converted", ".", outputFormat >>]_vars

\* a download named after a format other than the one the output is in
C9_Witness ==
    /\ toast = Toast("Download started", << "File saved as converted.", outputFormat >>)
    /\ download = << "converted", ".", outputFormat >>
    /\ outputData # <<>>
    /\ serializedAs \in FileFormat \ {outputFormat}

\* C10: after a successful conversion a download is never refused: every
\* successful conversion leaves a non-empty outputData.
C10_SuccessAllowsDownload ==
    [][(outcome = "success" /\ HandleDownload)
         => toast'.title # "No data to download"]_vars

\* C10 as amended: a successful conversion leaves outputData empty exactly
\* when it serialized an empty array to CSV.
C10_EmptyOnlyForEmptyCsv ==
    outcome = "success"
        => (outputData = <<>> <=> (serializedAs = "csv" /\ parsedData = Arr(<<>>)))

\* a successful conversion of an empty array to CSV, and the refused download
\* after it
C10_Witness ==
    /\ outcome = "success"
    /\ serializedAs = "csv"
    /\ parsedData = Arr(<<>>)
    /\ outputData = <<>>
    /\ toast.title = "No data to download"

=============================================================================
